---- MODULE Spec2Model ----
(***************************************************************************)
(* MIDItoOBS, src/main.py: the MidiHandler object.                         *)
(*                                                                         *)
(* Two callbacks share one MidiHandler: mido delivers MIDI messages to     *)
(* handle_midi_input on the MIDI backend's thread, and WebSocketApp        *)
(* delivers OBS messages to handle_obs_message on the thread that runs     *)
(* run_forever.  Each callback is modelled as a process with its own       *)
(* program counter; a step is one access to the shared state               *)
(* (_action_buffer, _action_counter, obs_socket.send) together with the    *)
(* thread-local code around it.  list.append, list.remove, one iteration   *)
(* of a list iterator and WebSocketApp.send are atomic under the           *)
(* interpreter lock.                                                       *)
(*                                                                         *)
(* obs_socket.send is taken to deliver (a connected socket); strings with  *)
(* format slots are taken to have the slots their use needs.               *)
(***************************************************************************)
EXTENDS Integers, Sequences, FiniteSets, TLC

\* ------------------------------------------------------------- bounds
\* Longest list db.search returns for one event.
MaxCand == 2
\* Tracked requests issued before the MIDI source is stopped.
MaxRequests == 2
\* Significant bits of a float.
FloatBits == 5

\* ---------------------------------------------------------- constants
\* self._action_counter = 2
InitCounter == 2
\* The controller's maximum, `value == 127` and map_scale(value, 0, 127, ..)
MidiMax == 127

\* A key that a dict does not hold (dict.get gives None, dict[...] raises).
NONE == "<none>"

\* Python truthiness of an optional string: None and "" are falsy.
Falsy(x) == x \in {NONE, ""}

\* ------------------------------------------------------------ strings
Digits == <<"0", "1", "2", "3", "4", "5", "6", "7", "8", "9">>

DigitVal(c) == (CHOOSE i \in 1..10 : Digits[i] = c) - 1

IsDigit(c) == \E i \in 1..10 : Digits[i] = c

\* "%d" % n for n >= 0: the decimal digits of n.
RECURSIVE IntToStr(_)
IntToStr(n) ==
    IF n < 10 THEN <<Digits[n + 1]>>
    ELSE Append(IntToStr(n \div 10), Digits[(n % 10) + 1])

\* int(s) accepts s iff it is a non-empty run of digits (over the modelled
\* alphabet); otherwise it raises ValueError.
IsIntString(s) == Len(s) > 0 /\ \A i \in 1..Len(s) : IsDigit(s[i])

RECURSIVE ParseInt(_)
ParseInt(s) ==
    IF Len(s) = 0 THEN 0
    ELSE 10 * ParseInt(SubSeq(s, 1, Len(s) - 1)) + DigitVal(s[Len(s)])

\* ---------------------------------------------------------- TEMPLATES
TemplateNames == {"ToggleSourceVisibility", "ReloadBrowserSource"}

\* TEMPLATES.get(request): the request envelope's fixed parts, or None.
TEMPLATES(request) ==
    CASE request = "ToggleSourceVisibility" ->
           [request_type |-> "GetSceneItemProperties", key |-> "item"]
      [] request = "ReloadBrowserSource" ->
           [request_type |-> "GetSourceSettings", key |-> "sourceName"]
      [] OTHER -> [request_type |-> NONE, key |-> NONE]

HasTemplate(request) == TEMPLATES(request).request_type # NONE

\* template % (self._action_counter, target)
FormatEnvelope(request, counter, target) ==
    [kind         |-> "envelope",
     request_type |-> TEMPLATES(request).request_type,
     message_id   |-> IntToStr(counter),
     key          |-> TEMPLATES(request).key,
     value        |-> target]

\* obs_socket.send(action): the action string as stored.
Verbatim(action) == [kind |-> "verbatim", text |-> action]

\* template % arg: the stored action with arg in its slot.
FormatAction(template, arg) == [kind |-> "formatted", text |-> template, arg |-> arg]

\* ------------------------------------------------------------ helpers
Range(s) == {s[i] : i \in 1..Len(s)}

IsPrefix(s, t) == Len(s) <= Len(t) /\ SubSeq(t, 1, Len(s)) = s

\* list.remove(x): drops the first element equal to x.
\* A removal that takes the entries behind the first x with it.
RemoveFirstAndRest(s, x) ==
    LET i == CHOOSE k \in 1..Len(s) : s[k] = x /\ \A j \in 1..(k - 1) : s[j] # x
    IN  SubSeq(s, 1, i - 1)

RemoveFirst(s, x) ==
    LET i == CHOOSE k \in 1..Len(s) : s[k] = x /\ \A j \in 1..(k - 1) : s[j] # x
    IN  SubSeq(s, 1, i - 1) \o SubSeq(s, i + 1, Len(s))

Ids(buf) == {buf[i].id : i \in 1..Len(buf)}

\* ---------------------------------------------------------- map_scale
\* Python floats are binary floating-point numbers with 53 significant bits,
\* every operation rounding its exact result to the nearest of them (ties to
\* the even one).  The model keeps the arithmetic and scales the width down
\* to FloatBits significant bits.  A float is m * 2^e, written [m, e] with m
\* odd, or [0, 0] for zero; intermediate exact results have the same form
\* with any number of bits.
Float(m, e) == [m |-> m, e |-> e]

Zero == Float(0, 0)

RECURSIVE Norm(_, _)
Norm(m, e) ==
    IF m = 0 THEN Zero
    ELSE IF m % 2 = 0 THEN Norm(m \div 2, e + 1)
    ELSE Float(m, e)

\* float(n) for an integer n (exact for the integers the model uses).
F(n) == Norm(n, 0)

Abs(n) == IF n < 0 THEN -n ELSE n
Sign(n) == IF n < 0 THEN -1 ELSE 1
Min(a, b) == IF a <= b THEN a ELSE b

\* The integer nearest to a / b, for a >= 0 and b > 0, ties to even.
RoundDivEven(a, b) ==
    LET q == a \div b
        r == a % b
    IN  IF 2 * r < b THEN q
        ELSE IF 2 * r > b THEN q + 1
        ELSE IF q % 2 = 0 THEN q ELSE q + 1

\* The least k >= 0 with a * 2^k >= b * 2^(FloatBits - 1), for a > 0.
RECURSIVE ShiftUp(_, _, _)
ShiftUp(a, b, k) ==
    IF a * 2^k >= b * 2^(FloatBits - 1) THEN k ELSE ShiftUp(a, b, k + 1)

\* The least k >= 0 with a < b * 2^(FloatBits + k).
RECURSIVE ShiftDown(_, _, _)
ShiftDown(a, b, k) ==
    IF a < b * 2^(FloatBits + k) THEN k ELSE ShiftDown(a, b, k + 1)

\* The float nearest to n / d, for d > 0.
RoundRat(n, d) ==
    LET a == Abs(n)
        down == ShiftDown(a, d, 0)
        up == ShiftUp(a, d, 0)
    IN  IF n = 0 THEN Zero
        ELSE IF down > 0
        THEN Norm(Sign(n) * RoundDivEven(a, d * 2^down), down)
        ELSE Norm(Sign(n) * RoundDivEven(a * 2^up, d), -up)

\* The float nearest to the exact number x.
Round(x) ==
    LET r == RoundRat(x.m, 1) IN Norm(r.m, r.e + x.e)

\* Exact sum, difference and product.
ExactAdd(x, y) ==
    LET e == Min(x.e, y.e)
    IN  Norm(x.m * 2^(x.e - e) + y.m * 2^(y.e - e), e)

Neg(x) == Float(-x.m, x.e)
ExactSub(x, y) == ExactAdd(x, Neg(y))
ExactMul(x, y) == Norm(x.m * y.m, x.e + y.e)

\* x <= y
Leq(x, y) == ExactSub(y, x).m >= 0

\* x + y, x - y, x * y on floats, and a / b on integers with b > 0.
FAdd(x, y) == Round(ExactAdd(x, y))
FSub(x, y) == Round(ExactSub(x, y))
FMul(x, y) == Round(ExactMul(x, y))
FDivInt(a, b) == RoundRat(a, b)

\* map_scale with the output range the other way round.
map_scale_reversed(inp, ista, isto, osta, osto) ==
    FAdd(osto, FMul(FSub(osta, osto), FDivInt(inp - ista, isto - ista)))

\* osta + (osto - osta) * ((inp - ista) / (isto - ista)), for integers
\* inp >= ista and isto > ista and floats osta, osto.
map_scale(inp, ista, isto, osta, osto) ==
    FAdd(osta, FMul(FSub(osto, osta), FDivInt(inp - ista, isto - ista)))

\* scaled**3
Cube(x) == Round(ExactMul(ExactMul(x, x), x))

\* An int() that rounds down.
IntOfFloor(x) ==
    IF x.e >= 0 THEN x.m * 2^(x.e) ELSE x.m \div 2^(-x.e)

\* int(scaled): truncation toward zero.
IntOf(x) ==
    IF x.e >= 0 THEN x.m * 2^(x.e)
    ELSE Sign(x.m) * (Abs(x.m) \div 2^(-x.e))

\* ----------------------------------------------------------- bindings
\* One row of the configuration, as db.search returns it.
Binding(it, a, r, t, c, hs, lo, hi) ==
    [input_type |-> it, action |-> a, request |-> r, target |-> t, cmd |-> c,
     has_scale |-> hs, scale_low |-> lo, scale_high |-> hi]

\* The commands without the offset class.
FaderCommandsNoOffset ==
    {"SetSourcePosition", "SetSourceScale", "SetVolume", "SetSourceRotation",
     "SetTransitionDuration"}

\* The commands handle_midi_fader compares result["cmd"] with.
FaderCommands ==
    {"SetSourcePosition", "SetSourceScale", "SetVolume", "SetSourceRotation",
     "SetTransitionDuration", "SetSyncOffset"}

\* Rows bound to a button: action, request and target are what send_action
\* reads.  Every combination of a missing or present action and target with
\* no request, a templated request and a request without template.
AllButtonBindings ==
    {Binding("button", a, r, t, NONE, FALSE, F(0), F(0)) :
        a \in {NONE, "A"},
        r \in {NONE, "ToggleSourceVisibility", "ReloadBrowserSource", "Unknown"},
        t \in {NONE, "T"}}

\* One row for each way through send_action: no action, no request, no
\* template, no target, and the two tracked requests.
ButtonBindings ==
    {Binding("button", NONE, "ToggleSourceVisibility", "T", NONE, FALSE, F(0), F(0)),
     Binding("button", "A", NONE, NONE, NONE, FALSE, F(0), F(0)),
     Binding("button", "A", "Unknown", "T", NONE, FALSE, F(0), F(0)),
     Binding("button", "A", "ReloadBrowserSource", NONE, NONE, FALSE, F(0), F(0)),
     Binding("button", "A", "ToggleSourceVisibility", "T", NONE, FALSE, F(0), F(0)),
     Binding("button", "A", "ReloadBrowserSource", "T", NONE, FALSE, F(0), F(0))}

\* Rows bound to a controller: the rows of ButtonBindings, a button row with
\* an empty action, and fader rows (cmd and the scale are what
\* handle_midi_fader reads of them): one of each class of command, one with
\* another command, and rows that lack cmd, the scale, action or input_type.
AllFaderBindings ==
    ButtonBindings
    \cup {Binding("button", "", NONE, NONE, NONE, FALSE, F(0), F(0)),
          Binding("fader", "A", NONE, NONE, "SetSourcePosition", TRUE, F(0), F(2)),
          Binding("fader", "A", NONE, NONE, "SetVolume", TRUE, F(0), F(2)),
          Binding("fader", "A", NONE, NONE, "SetSyncOffset", TRUE, F(-3), F(1)),
          Binding("fader", "A", NONE, NONE, "Other", TRUE, F(0), F(2)),
          Binding("fader", "A", NONE, NONE, NONE, TRUE, F(0), F(2)),
          Binding("fader", "A", NONE, NONE, "SetVolume", FALSE, F(0), F(0)),
          Binding("fader", NONE, NONE, NONE, "SetVolume", TRUE, F(0), F(2)),
          Binding(NONE, "A", NONE, NONE, NONE, FALSE, F(0), F(0))}

\* Rows bound to a controller, under OBS traffic: a button row that sends, one
\* that registers, one send_action refuses, a fader row that sends, one that
\* falls through and one that lacks a key.
FaderBindings ==
    {Binding("button", "A", NONE, NONE, NONE, FALSE, F(0), F(0)),
     Binding("button", "A", "ToggleSourceVisibility", "T", NONE, FALSE, F(0), F(0)),
     Binding("button", "A", "ReloadBrowserSource", NONE, NONE, FALSE, F(0), F(0)),
     Binding("fader", "A", NONE, NONE, "SetVolume", TRUE, F(0), F(2)),
     Binding("fader", "A", NONE, NONE, "Other", TRUE, F(0), F(2)),
     Binding("fader", "A", NONE, NONE, NONE, TRUE, F(0), F(2))}

\* Output ranges of fader rows: rising, with a negative bound, with a bound
\* that is no integer (29/32), and falling.
ScaleRanges ==
    {<<F(0), F(2)>>, <<F(-3), F(1)>>, <<F(-2), Float(29, -5)>>, <<F(2), F(0)>>}

\* Complete fader rows: one command of each class with every range, and the
\* other commands with one range each.
ScaleBindings ==
    {Binding("fader", "A", NONE, NONE, c, TRUE, r[1], r[2]) :
        c \in {"SetSourcePosition", "SetVolume", "SetSyncOffset"}, r \in ScaleRanges}
    \cup {Binding("fader", "A", NONE, NONE, c, TRUE, F(-3), F(1)) :
        c \in {"SetSourceScale", "SetSourceRotation", "SetTransitionDuration"}}

\* Values a control_change message carries (0..127).
EveryMidiValue == 0..MidiMax
AllMidiValues == {0, 64, 126, MidiMax}
MidiValues == {0, 64, MidiMax}

\* mido messages: the type, and the value of a control_change.
Messages(values) ==
    {[type |-> t, value |-> 0] : t \in {"note_on", "program_change", "note_off"}}
    \cup {[type |-> "control_change", value |-> v] : v \in values}

\* self.db.search(...) for the message when n rows are stored under its key:
\* the rows in stored order, out of the rows `buttons` (bound to notes and
\* programs) and `controls` (bound to controllers).
Search(message, n, buttons, controls) ==
    IF message.type = "control_change" THEN [1..n -> controls] ELSE [1..n -> buttons]

\* ----------------------------------------------------------- payloads
Payload(err, hid, mid, hv, v, hu, u) ==
    [error |-> err, has_id |-> hid, mid |-> mid, has_visible |-> hv, visible |-> v,
     has_url |-> hu, url |-> u]

\* sourceSettings.url values OBS reports.
Urls == {<<>>, <<"x">>, <<"x", "#">>}

\* message-id values that answer no request of this process.
ForeignIds == {<<"1">>, <<"x">>}

\* What OBS sends once the envelopes in `sent` have reached it: for each
\* envelope a reply of the request's kind or an error reply, each any number
\* of times; and messages that answer nothing (events, other ids).
Payloads(sent) ==
    UNION {
        CASE e.request_type = "GetSceneItemProperties" ->
               {Payload(FALSE, TRUE, e.message_id, TRUE, v, FALSE, <<>>) : v \in BOOLEAN}
          [] e.request_type = "GetSourceSettings" ->
               {Payload(FALSE, TRUE, e.message_id, FALSE, FALSE, TRUE, u) : u \in Urls}
          [] OTHER -> {}
        : e \in sent}
    \cup {Payload(TRUE, TRUE, e.message_id, FALSE, FALSE, FALSE, <<>>) : e \in sent}
    \cup {Payload(FALSE, TRUE, m, FALSE, FALSE, FALSE, <<>>) : m \in ForeignIds}
    \cup {Payload(err, FALSE, <<>>, FALSE, FALSE, FALSE, <<>>) : err \in BOOLEAN}

\* -------------------------------------------------------------- state
VARIABLES
    action_buffer,   \* self._action_buffer: entries [id, action, kind]
    action_counter,  \* self._action_counter
    m_pc,            \* MIDI callback: where it stands
    m_handler,       \* MIDI callback: the handler handle_midi_input called
    m_value,         \* MIDI callback: `value`, a control_change's value
    m_results,       \* MIDI callback: `results`
    m_idx,           \* MIDI callback: the position of `result` in `results`
    w_pc,            \* websocket callback: where it stands
    w_payload,       \* websocket callback: `payload`
    w_idx,           \* websocket callback: the list iterator's index
    w_action,        \* websocket callback: `action`, the entry it matched
    \* history
    m_sent,          \* messages the current MIDI callback has transmitted
    m_log,           \* its send_action calls: candidate, return value, effects
    m_raised,        \* the exception that ended it, or NONE
    w_sent,          \* messages the current websocket callback has transmitted
    w_ret,           \* how it ended, or NONE while it runs
    w_removed,       \* the entries it has removed
    w_pending,       \* whether it was called with a reply to an entry in the buffer
    issued,          \* ids registered, in order of registration
    resolved,        \* ids removed from the buffer
    wire,            \* request envelopes transmitted so far
    followed,        \* per id, the number of follow-ups transmitted: records [id, n]
    \* shutdown
    port,            \* self.port: "open" or "closed"
    socket,          \* self.obs_socket: "open" or "closed"
    db,              \* self.db: "open" or "closed"
    c_pc,            \* close(): where it stands
    c_teardown,      \* close(): `teardown`
    c_from,          \* the caller of close(), or NONE
    c_tried,         \* the resources whose close() it has called
    c_raised         \* the exception that ended it, or NONE

mvars == <<m_pc, m_handler, m_value, m_results, m_idx, m_sent, m_log, m_raised>>
wvars == <<w_pc, w_payload, w_idx, w_action, w_sent, w_ret, w_removed, w_pending>>
cvars == <<port, socket, db, c_pc, c_teardown, c_from, c_tried, c_raised>>
vars == <<action_buffer, action_counter, issued, resolved, wire, followed,
          mvars, wvars, cvars>>

\* [self._action_counter, action, request]
Entry(id, action, kind) == [id |-> id, action |-> action, kind |-> kind]

NoEntry == Entry(0, NONE, NONE)

NoPayload == Payload(FALSE, FALSE, <<>>, FALSE, FALSE, FALSE, <<>>)

\* A callback that is not running: no frame, no history.
MidiIdle ==
    /\ m_pc = "idle" /\ m_handler = NONE /\ m_value = 0 /\ m_results = <<>> /\ m_idx = 0
    /\ m_sent = <<>> /\ m_log = <<>> /\ m_raised = NONE

ObsIdle ==
    /\ w_pc = "idle" /\ w_payload = NoPayload /\ w_idx = 0 /\ w_action = NoEntry
    /\ w_sent = <<>> /\ w_ret = NONE /\ w_removed = <<>> /\ w_pending = FALSE

CloseIdle ==
    /\ c_pc = "idle" /\ c_teardown = FALSE /\ c_from = NONE
    /\ c_tried = {} /\ c_raised = NONE

\* MidiHandler.__init__, with both callbacks installed and none running.
Init ==
    /\ action_buffer = <<>>
    /\ action_counter = InitCounter
    /\ MidiIdle
    /\ ObsIdle
    /\ issued = <<>> /\ resolved = {} /\ wire = {} /\ followed = {}
    /\ port = "open" /\ socket = "open" /\ db = "open"
    /\ CloseIdle

\* -------------------------------------------------------- send_action
\* send_action without its test of the target.
SendActionOutcomeNoTargetTest(b) ==
    IF Falsy(b.action) THEN "no_action"
    ELSE IF Falsy(b.request) THEN "verbatim"
    ELSE IF ~HasTemplate(b.request) THEN "no_template"
    ELSE "tracked"

\* send_action up to its first effect: which of its returns or sends the
\* binding reaches.
SendActionOutcome(b) ==
    IF Falsy(b.action) THEN "no_action"
    ELSE IF Falsy(b.request) THEN "verbatim"
    ELSE IF ~HasTemplate(b.request) THEN "no_template"
    ELSE IF Falsy(b.target) THEN "no_target"
    ELSE "tracked"

\* The tracked branch counting up before it sends.
TrackedOrderCountFirst == <<"register", "increment", "transmit">>

\* The tracked branch sending before it registers.
TrackedOrderSendFirst == <<"transmit", "register", "increment">>

\* The three statements that end send_action for a tracked request, in
\* program order: append to the buffer, send the envelope, count up.
TrackedOrder == <<"register", "transmit", "increment">>

TrackedAfter(pc) ==
    LET i == CHOOSE k \in 1..Len(TrackedOrder) : TrackedOrder[k] = pc
    IN  IF i = Len(TrackedOrder) THEN "return" ELSE TrackedOrder[i + 1]

\* What a step appended to a list that was `before` and is `after`.
Added(before, after) ==
    IF IsPrefix(before, after) THEN SubSeq(after, Len(before) + 1, Len(after))
    ELSE <<NoEntry>>

\* The record of a send_action call on candidate i, as first entered: its
\* return value, the messages it transmitted, the counter it found and left,
\* the entries it appended.
OpenCall(i) ==
    [i |-> i, ret |-> "running", sent |-> <<>>,
     cnt0 |-> action_counter, cnt1 |-> action_counter, app |-> <<>>]

\* The record after a step of the call that transmitted msgs: ret is its
\* return value ("running" before it returns).
StepCall(c, msgs, ret) ==
    [c EXCEPT !.sent = c.sent \o msgs, !.ret = ret, !.cnt1 = action_counter',
              !.app = c.app \o Added(action_buffer, action_buffer')]

LastCall == m_log[Len(m_log)]

ReplaceLast(log, c) == [log EXCEPT ![Len(log)] = c]

\* `continue`, or the end of the loop's body: `for result in results` takes
\* the next candidate, or ends with the handler.
Continue ==
    /\ m_pc' = IF m_idx >= Len(m_results) THEN "done" ELSE m_pc
    /\ m_idx' = IF m_idx >= Len(m_results) THEN m_idx ELSE m_idx + 1

\* A loop whose `break` is missing: it goes on with the next candidate.
BreakMissing == Continue

\* `break`: the loop ends, and the handler with it.
Break == m_pc' = "done" /\ m_idx' = m_idx

\* The call self.send_action(result) from either loop, up to its return or to
\* the first statement of the tracked branch; a True return leaves the loop
\* by `break`, a False return goes on with the next candidate.
CallSendAction ==
    LET b == m_results[m_idx]
        out == SendActionOutcome(b)
    IN  CASE out = "verbatim" ->
               /\ m_sent' = Append(m_sent, Verbatim(b.action))
               /\ m_log' = Append(m_log,
                      StepCall(OpenCall(m_idx), <<Verbatim(b.action)>>, "True"))
               /\ Break
          [] out = "tracked" ->
               /\ m_log' = Append(m_log, OpenCall(m_idx))
               /\ m_pc' = TrackedOrder[1]
               /\ UNCHANGED <<m_idx, m_sent>>
          [] OTHER ->
               /\ m_log' = Append(m_log, StepCall(OpenCall(m_idx), <<>>, "False"))
               /\ Continue
               /\ UNCHANGED m_sent

\* What every statement of the tracked branch does to the callback's frame;
\* after the last one send_action returns True and the loop breaks.
TrackedStep(pc, msgs) ==
    /\ IF TrackedAfter(pc) = "return" THEN Break
       ELSE m_pc' = TrackedAfter(pc) /\ m_idx' = m_idx
    /\ m_sent' = m_sent \o msgs
    /\ m_log' = ReplaceLast(m_log,
           StepCall(LastCall, msgs,
                    IF TrackedAfter(pc) = "return" THEN "True" ELSE "running"))
    /\ UNCHANGED <<m_handler, m_value, m_results, m_raised, wvars, cvars, resolved,
                   followed>>

\* self._action_buffer.append([self._action_counter, action, request])
SendActionRegister ==
    LET b == m_results[m_idx] IN
    /\ m_pc = "register"
    /\ action_buffer' = Append(action_buffer, Entry(action_counter, b.action, b.request))
    /\ issued' = Append(issued, action_counter)
    /\ UNCHANGED <<action_counter, wire>>
    /\ TrackedStep("register", <<>>)

\* self.obs_socket.send(template % (self._action_counter, target))
SendActionTransmit ==
    LET b == m_results[m_idx]
        msg == FormatEnvelope(b.request, action_counter, b.target)
    IN  /\ m_pc = "transmit"
        /\ wire' = wire \cup {msg}
        /\ UNCHANGED <<action_buffer, action_counter, issued>>
        /\ TrackedStep("transmit", <<msg>>)

\* A tracked branch that returns without counting up.
SendActionIncrementForgets ==
    /\ m_pc = "increment"
    /\ UNCHANGED <<action_buffer, action_counter, issued, wire>>
    /\ TrackedStep("increment", <<>>)

\* self._action_counter += 1, and `return True`
SendActionIncrement ==
    /\ m_pc = "increment"
    /\ action_counter' = action_counter + 1
    /\ UNCHANGED <<action_buffer, issued, wire>>
    /\ TrackedStep("increment", <<>>)

\* ------------------------------------------------------ MIDI callback
shared == <<action_buffer, action_counter, issued, resolved, wire, followed>>

\* handle_midi_input(message), with the db.search of the handler it calls:
\* note_on and program_change go to handle_midi_button, control_change to
\* handle_midi_fader, any other type is dropped; an empty search result ends
\* the handler.  The MIDI source is stopped after MaxRequests registrations.
HandleMidiInput(message, results) ==
    /\ m_pc = "idle"
    /\ action_counter < InitCounter + MaxRequests
    /\ m_sent' = <<>> /\ m_log' = <<>> /\ m_raised' = NONE
    /\ IF message.type \in {"note_on", "program_change"}
       THEN /\ m_handler' = "handle_midi_button"
            /\ m_value' = 0
            /\ m_results' = results
            /\ m_idx' = IF results = <<>> THEN 0 ELSE 1
            /\ m_pc' = IF results = <<>> THEN "done" ELSE "button_loop"
       ELSE IF message.type = "control_change"
       THEN /\ m_handler' = "handle_midi_fader"
            /\ m_value' = message.value
            /\ m_results' = results
            /\ m_idx' = IF results = <<>> THEN 0 ELSE 1
            /\ m_pc' = IF results = <<>> THEN "done" ELSE "fader_loop"
       ELSE /\ m_handler' = NONE /\ m_value' = 0
            /\ m_results' = <<>> /\ m_idx' = 0 /\ m_pc' = "done"
    /\ UNCHANGED <<shared, cvars, wvars>>

\* The MIDI backend calls the callback (mido.open_input(callback=...)) with
\* the next message, once the call before has returned.
MidiEvent(values, buttons, controls) ==
    /\ m_pc = "idle" /\ port = "open"
    /\ \E message \in Messages(values), n \in 0..MaxCand :
         \E results \in Search(message, n, buttons, controls) :
           HandleMidiInput(message, results)

\* The return of handle_midi_input to the MIDI backend (after a return, or an
\* exception the backend swallows): the frame is gone.
MidiReturn ==
    /\ m_pc = "done"
    /\ m_pc' = "idle" /\ m_handler' = NONE /\ m_value' = 0 /\ m_results' = <<>> /\ m_idx' = 0
    /\ m_sent' = <<>> /\ m_log' = <<>> /\ m_raised' = NONE
    /\ UNCHANGED <<shared, cvars, wvars>>

\* handle_midi_button: one pass of `for result in results`.
HandleMidiButton ==
    /\ m_pc = "button_loop"
    /\ UNCHANGED <<shared, cvars, wvars, m_handler, m_value, m_results, m_raised>>
    /\ CallSendAction

\* The end of handle_midi_fader by an exception.
Raise(exc) ==
    /\ m_raised' = exc
    /\ m_pc' = "done"
    /\ UNCHANGED <<m_idx, m_sent, m_log>>

\* A threshold at the middle of the range.
AtMaximumOrAbove(value) == value >= 64

\* value == 127
AtMaximum(value) == value = MidiMax

\* The value the fader branch substitutes for the command.
FaderArg(command, scaled) ==
    CASE command \in {"SetSourcePosition", "SetSourceScale"} ->
           [type |-> "float", m |-> scaled.m, e |-> scaled.e]
      [] command = "SetVolume" ->
           [type |-> "float", m |-> Cube(scaled).m, e |-> Cube(scaled).e]
      [] OTHER ->
           [type |-> "int", m |-> IntOf(scaled), e |-> 0]

\* action % value
FormatNumber(template, value) ==
    [kind |-> "formatted_number", text |-> template, number |-> value]

\* handle_midi_fader: one pass of `for result in results`.
HandleMidiFader ==
    LET b == m_results[m_idx]
        value == m_value
    IN
    /\ m_pc = "fader_loop"
    /\ UNCHANGED <<shared, cvars, wvars, m_handler, m_value, m_results>>
    /\ IF b.input_type = NONE \/ b.action = NONE
       THEN Raise("KeyError")
       ELSE IF b.input_type = "button"
       THEN /\ UNCHANGED m_raised
            /\ IF AtMaximum(value) THEN CallSendAction
               ELSE Break /\ UNCHANGED <<m_sent, m_log>>
       ELSE IF b.input_type = "fader"
       THEN IF b.cmd = NONE \/ ~b.has_scale
            THEN Raise("KeyError")
            ELSE /\ UNCHANGED m_raised
                 /\ IF b.cmd \in FaderCommands
                    THEN LET scaled == map_scale(value, 0, MidiMax, b.scale_low, b.scale_high)
                         IN  /\ m_sent' = Append(m_sent,
                                    FormatNumber(b.action, FaderArg(b.cmd, scaled)))
                             /\ Break
                             /\ UNCHANGED m_log
                    ELSE Continue /\ UNCHANGED <<m_sent, m_log>>
       ELSE /\ UNCHANGED m_raised
            /\ Continue /\ UNCHANGED <<m_sent, m_log>>

\* ------------------------------------------------- websocket callback
\* The end of handle_obs_message: by return (how) or by an exception.
ObsEnd(how) == w_pc' = "done" /\ w_ret' = how

\* An error check that never finds the field.
HasErrorNever(payload) == FALSE

\* "error" in payload
HasError(payload) == payload.error

\* An id test that lets every entry through.
IdMatchesAny(entry, payload) == TRUE

\* buffered_id != int(payload["message-id"]) is false, for a message-id int accepts
IdMatches(entry, payload) == entry.id = ParseInt(payload.mid)

\* The payload is a reply (no error, an integer message-id) to an entry of buf.
Pending(payload, buf) ==
    /\ ~payload.error /\ payload.has_id /\ IsIntString(payload.mid)
    /\ ParseInt(payload.mid) \in Ids(buf)

\* handle_obs_message(message) up to the loop: json.loads, the error check
\* and payload["message-id"].
HandleObsMessage(payload) ==
    /\ w_pc = "idle"
    /\ w_payload' = payload
    /\ w_idx' = 0 /\ w_action' = NoEntry
    /\ w_sent' = <<>> /\ w_removed' = <<>>
    /\ w_pending' = Pending(payload, action_buffer)
    /\ IF HasError(payload) THEN ObsEnd("error")
       ELSE IF ~payload.has_id THEN ObsEnd("KeyError")
       ELSE w_pc' = "scan" /\ w_ret' = NONE
    /\ UNCHANGED <<shared, cvars, mvars>>

\* WebSocketApp calls on_message with the next message from OBS, once the
\* call before has returned.
ObsEvent ==
    /\ w_pc = "idle" /\ socket = "open"
    /\ c_from # "handle_obs_error"
    /\ \E payload \in Payloads(wire) : HandleObsMessage(payload)

\* The return of handle_obs_message to WebSocketApp (after a return, or an
\* exception its dispatcher catches): the frame is gone.
ObsReturn ==
    /\ w_pc = "done"
    /\ w_pc' = "idle" /\ w_payload' = NoPayload /\ w_idx' = 0 /\ w_action' = NoEntry
    /\ w_sent' = <<>> /\ w_ret' = NONE /\ w_removed' = <<>> /\ w_pending' = FALSE
    /\ UNCHANGED <<shared, cvars, mvars>>

\* One pass of `for action in self._action_buffer` up to the id test.
ObsScan ==
    /\ w_pc = "scan"
    /\ IF w_idx >= Len(action_buffer)
       THEN ObsEnd("unmatched") /\ UNCHANGED <<w_idx, w_action>>
       ELSE IF ~IsIntString(w_payload.mid)
       THEN ObsEnd("ValueError") /\ UNCHANGED <<w_idx, w_action>>
       ELSE IF ~IdMatches(action_buffer[w_idx + 1], w_payload)
       THEN w_idx' = w_idx + 1 /\ UNCHANGED <<w_pc, w_ret, w_action>>
       ELSE /\ w_action' = action_buffer[w_idx + 1]
            /\ w_pc' = "followup"
            /\ UNCHANGED <<w_idx, w_ret>>
    /\ UNCHANGED <<shared, cvars, mvars, w_payload, w_sent, w_removed, w_pending>>

\* source[0:-1] if source[-1] == '#' else source + '#', for a non-empty source
ToggleMarker(source) ==
    IF source[Len(source)] = "#" THEN SubSeq(source, 1, Len(source) - 1)
    ELSE Append(source, "#")

\* The reply's visibility, not inverted.
InvisibleSame(visible) == IF visible THEN <<"true">> ELSE <<"false">>

\* "false" if payload["visible"] else "true"
Invisible(visible) == IF visible THEN <<"false">> ELSE <<"true">>

\* One more follow-up for id in the count f.
CountFollowUp(f, id) ==
    LET old == {r \in f : r.id = id}
        n == IF old = {} THEN 0 ELSE (CHOOSE r \in old : TRUE).n
    IN  (f \ old) \cup {[id |-> id, n |-> n + 1]}

\* The body of the loop for the matched entry, up to the send.
ObsFollowUp ==
    LET kind == w_action.kind
        template == w_action.action
    IN
    /\ w_pc = "followup"
    /\ IF kind = "ToggleSourceVisibility"
       THEN IF ~w_payload.has_visible
            THEN ObsEnd("KeyError") /\ UNCHANGED w_sent
            ELSE /\ w_sent' = Append(w_sent, FormatAction(template, Invisible(w_payload.visible)))
                 /\ w_pc' = "remove" /\ UNCHANGED w_ret
       ELSE IF kind = "ReloadBrowserSource"
       THEN IF ~w_payload.has_url
            THEN ObsEnd("KeyError") /\ UNCHANGED w_sent
            ELSE IF Len(w_payload.url) = 0
            THEN ObsEnd("IndexError") /\ UNCHANGED w_sent
            ELSE /\ w_sent' = Append(w_sent, FormatAction(template, ToggleMarker(w_payload.url)))
                 /\ w_pc' = "remove" /\ UNCHANGED w_ret
       ELSE w_pc' = "remove" /\ UNCHANGED <<w_ret, w_sent>>
    /\ followed' = IF Len(w_sent') > Len(w_sent) THEN CountFollowUp(followed, w_action.id)
                   ELSE followed
    /\ UNCHANGED <<action_buffer, action_counter, issued, resolved, wire, cvars, mvars,
                   w_payload, w_idx, w_action, w_removed, w_pending>>

\* A handler that breaks without removing the entry.
ObsRemoveKeeps ==
    /\ w_pc = "remove"
    /\ ObsEnd("resolved")
    /\ UNCHANGED <<shared, cvars, mvars, w_payload, w_idx, w_action, w_sent,
                   w_removed, w_pending>>

\* self._action_buffer.remove(action), and `break`
ObsRemove ==
    /\ w_pc = "remove"
    /\ IF w_action \in Range(action_buffer)
       THEN /\ action_buffer' = RemoveFirst(action_buffer, w_action)
            /\ resolved' = resolved \cup {w_action.id}
            /\ w_removed' = Append(w_removed, w_action)
            /\ ObsEnd("resolved")
       ELSE /\ ObsEnd("ValueError")
            /\ UNCHANGED <<action_buffer, resolved, w_removed>>
    /\ UNCHANGED <<action_counter, issued, wire, followed, cvars, mvars, w_payload, w_idx, w_action,
                   w_sent, w_pending>>

\* ----------------------------------------------------------- shutdown
\* What a close() of one resource can do: return, or raise.
CloseOutcomes == {"closed", "raises"}

\* The resources close() releases, in the order of its statements:
\* self.port.close(), then `if not teardown: self.obs_socket.close()`, then
\* self.db.close().
CloseSteps(teardown) ==
    IF teardown THEN <<"port", "db">> ELSE <<"port", "socket", "db">>

\* The statement after the close of resource r, or "done" behind the last.
CloseAfter(teardown, r) ==
    LET steps == CloseSteps(teardown)
        i == CHOOSE k \in 1..Len(steps) : steps[k] = r
    IN  IF i = Len(steps) THEN "done" ELSE steps[i + 1]

\* A call of close(teardown) by `caller`.
CloseCall(teardown, caller) ==
    /\ c_pc = "idle"
    /\ c_pc' = CloseSteps(teardown)[1]
    /\ c_teardown' = teardown /\ c_from' = caller
    /\ c_tried' = {} /\ c_raised' = NONE
    /\ UNCHANGED <<port, socket, db>>

\* close(), called on the object with either value of teardown.
Close ==
    /\ \E teardown \in BOOLEAN : CloseCall(teardown, "close")
    /\ UNCHANGED <<shared, mvars, wvars>>

\* __end__: self.close()
End ==
    /\ CloseCall(FALSE, "__end__")
    /\ UNCHANGED <<shared, mvars, wvars>>

\* The errors WebSocketApp hands to on_error.
ObsErrors == {"KeyboardInterrupt", "SystemExit", "Exception"}

\* handle_obs_error(ws, error), on the thread of run_forever between two
\* messages: close(teardown=True) on an interrupt; for any other error the
\* format string "Websocket error: %" raises ValueError.
HandleObsError ==
    /\ w_pc = "idle"
    /\ \E error \in ObsErrors :
          IF error \in {"KeyboardInterrupt", "SystemExit"}
          THEN CloseCall(TRUE, "handle_obs_error")
          ELSE /\ c_pc = "idle"
               /\ c_pc' = "done" /\ c_raised' = "ValueError"
               /\ c_from' = NONE /\ c_tried' = {} /\ c_teardown' = FALSE
               /\ UNCHANGED <<port, socket, db>>
    /\ UNCHANGED <<shared, mvars, wvars>>

\* One statement of close(): the close() of resource r, which returns or
\* raises; an exception leaves close() at once.
CloseResource(r) ==
    /\ c_pc = r
    /\ c_tried' = c_tried \cup {r}
    /\ \E outcome \in CloseOutcomes :
          /\ IF outcome = "closed"
             THEN c_pc' = CloseAfter(c_teardown, r) /\ c_raised' = NONE
             ELSE c_pc' = "done" /\ c_raised' = "Exception"
          /\ port' = IF r = "port" /\ outcome = "closed" THEN "closed" ELSE port
          /\ socket' = IF r = "socket" /\ outcome = "closed" THEN "closed" ELSE socket
          /\ db' = IF r = "db" /\ outcome = "closed" THEN "closed" ELSE db
    /\ UNCHANGED <<c_teardown, c_from, shared, mvars, wvars>>

ClosePort == CloseResource("port")
CloseSocket == CloseResource("socket")
CloseDb == CloseResource("db")

\* The return of close(), or of handle_obs_error, to its caller.
CloseReturn ==
    /\ c_pc = "done"
    /\ c_pc' = "idle" /\ c_teardown' = FALSE /\ c_from' = NONE
    /\ c_tried' = {} /\ c_raised' = NONE
    /\ UNCHANGED <<port, socket, db, shared, mvars, wvars>>

\* ------------------------------------------------------ specification
Next ==
    \/ MidiEvent(MidiValues, ButtonBindings, FaderBindings)
    \/ MidiReturn
    \/ HandleMidiButton
    \/ HandleMidiFader
    \/ SendActionRegister
    \/ SendActionTransmit
    \/ SendActionIncrement
    \/ ObsEvent
    \/ ObsReturn
    \/ ObsScan
    \/ ObsFollowUp
    \/ ObsRemove

Spec == Init /\ [][Next]_vars

\* The MIDI callback alone (OBS sends nothing), over every kind of row.
NextMidi ==
    \/ MidiEvent(AllMidiValues, AllButtonBindings, AllFaderBindings)
    \/ MidiReturn
    \/ HandleMidiButton
    \/ HandleMidiFader
    \/ SendActionRegister
    \/ SendActionTransmit
    \/ SendActionIncrement

SpecMidi == Init /\ [][NextMidi]_vars

\* The MIDI callback on controllers bound to fader rows, at every value.
NextFader ==
    \/ MidiEvent(EveryMidiValue, {}, ScaleBindings)
    \/ MidiReturn
    \/ HandleMidiFader

SpecFader == Init /\ [][NextFader]_vars

\* The object while it is shut down: MIDI messages come in until the port is
\* closed.
NextClose ==
    \/ MidiEvent(MidiValues, ButtonBindings, FaderBindings)
    \/ MidiReturn
    \/ HandleMidiButton
    \/ HandleMidiFader
    \/ SendActionRegister
    \/ SendActionTransmit
    \/ SendActionIncrement
    \/ Close
    \/ End
    \/ HandleObsError
    \/ ClosePort
    \/ CloseSocket
    \/ CloseDb
    \/ CloseReturn

SpecClose == Init /\ [][NextClose]_vars

\* ------------------------------------------------------------- claims
InButton == m_handler = "handle_midi_button"
InFader == m_handler = "handle_midi_fader"

\* The calls of the current MIDI callback that have returned.
Returned == {k \in 1..Len(m_log) : m_log[k].ret # "running"}

\* The three cases in which send_action is to refuse a row.
NoAction(b) == b.action \in {NONE, ""}
NoTemplate(b) == b.request \notin {NONE, ""} /\ b.request \notin TemplateNames
NoTarget(b) == b.request \in TemplateNames /\ b.target \in {NONE, ""}
Refused(b) == NoAction(b) \/ NoTemplate(b) \/ NoTarget(b)

\* C1: handle_midi_button calls send_action on the candidates in stored
\* order, one call each; every call before the last returned False and
\* transmitted nothing; the handler ends only after a True return or after
\* the last candidate; it transmits at most one message, the one of the call
\* that returned True, and none when no call did.
C1_FirstSuccessWins ==
    InButton =>
        /\ \A k \in 1..Len(m_log) : m_log[k].i = k
        /\ \A k \in 1..(Len(m_log) - 1) :
              m_log[k].ret = "False" /\ m_log[k].sent = <<>>
        /\ Len(m_log) <= Len(m_results)
        /\ Len(m_sent) <= 1
        /\ m_sent = IF m_log = <<>> THEN <<>> ELSE LastCall.sent
        /\ m_pc = "done" /\ m_results # <<>> =>
              /\ m_log # <<>>
              /\ LastCall.ret \in {"True", "False"}
              /\ LastCall.ret = "False" => Len(m_log) = Len(m_results) /\ m_sent = <<>>
              /\ LastCall.ret = "True" =>
                    LET b == m_results[Len(m_log)]
                    IN  /\ Len(m_sent) = 1
                        /\ \/ m_sent[1] = Verbatim(b.action)
                           \/ /\ m_sent[1].kind = "envelope"
                              /\ m_sent[1].value = b.target
                              /\ m_sent[1].request_type = TEMPLATES(b.request).request_type

\* B1 fails and B2 succeeds: the handler ended with B2's message alone.
C1_Witness ==
    /\ InButton /\ m_pc = "done" /\ Len(m_results) = 2 /\ Len(m_log) = 2
    /\ m_log[1].ret = "False" /\ m_log[2].ret = "True" /\ Len(m_sent) = 1

\* C2: a send_action call returns False exactly on a row without action, with
\* a request that has no template, or with a templated request and no
\* target, and then it transmits nothing, appends nothing to the buffer and
\* leaves the counter; on every other row it returns True and transmits
\* exactly one message.
C2_SendActionRefuses ==
    \A k \in 1..Len(m_log) :
        LET c == m_log[k]
            b == m_results[c.i]
        IN  /\ c.ret = "running" => ~Refused(b)
            /\ c.ret = "False" => Refused(b)
            /\ c.ret = "True" => ~Refused(b) /\ Len(c.sent) = 1
            /\ Refused(b) =>
                  c.ret = "False" /\ c.sent = <<>> /\ c.app = <<>> /\ c.cnt1 = c.cnt0

\* A call refused a row for its missing target, and the next call sent.
C2_Witness ==
    /\ m_pc = "done" /\ Len(m_log) = 2
    /\ NoTarget(m_results[1]) /\ ~NoAction(m_results[1]) /\ m_log[1].ret = "False"
    /\ m_log[2].ret = "True" /\ Len(m_log[2].sent) = 1

\* C3: a call that returned True on a row with a request appended exactly the
\* entry (id, action, request) with id the counter it found, transmitted
\* exactly one envelope, whose message-id reads as that id and whose target
\* field is the row's target, and left the counter one higher; a call that
\* returned True on a row without request transmitted the action as stored,
\* appended nothing and left the counter.
C3_TrackedRequest ==
    \A k \in Returned :
        LET c == m_log[k]
            b == m_results[c.i]
        IN  c.ret = "True" =>
              IF b.request \in {NONE, ""}
              THEN c.sent = <<Verbatim(b.action)>> /\ c.app = <<>> /\ c.cnt1 = c.cnt0
              ELSE /\ c.app = <<Entry(c.cnt0, b.action, b.request)>>
                   /\ Len(c.sent) = 1
                   /\ c.sent[1].kind = "envelope"
                   /\ IsIntString(c.sent[1].message_id)
                   /\ ParseInt(c.sent[1].message_id) = c.cnt0
                   /\ c.sent[1].value = b.target
                   /\ c.cnt1 = c.cnt0 + 1

\* A tracked call has returned: one entry appended, one envelope sent.
C3_Witness ==
    /\ m_pc = "done" /\ m_log # <<>>
    /\ LastCall.ret = "True" /\ Len(LastCall.app) = 1 /\ Len(LastCall.sent) = 1
    /\ LastCall.sent[1].kind = "envelope"

Increasing(s) == \A i, j \in 1..Len(s) : i < j => s[i] < s[j]
DistinctIds(buf) == \A i, j \in 1..Len(buf) : i # j => buf[i].id # buf[j].id

\* send_action stands between its append (line 239) and the end of its
\* `+= 1` (line 241).
MidTracked == m_pc \in {"transmit", "increment"}

\* C4: the ids are unique and increase in the order of creation: every id
\* registered is larger than all registered before it, so none is registered
\* twice and a resolved one never again; the ids in the buffer are distinct;
\* and whenever no send_action stands between its append and its increment,
\* every id in the buffer is smaller than the counter (in between, the newest
\* one equals it).
C4_IdsUniqueIncreasing ==
    /\ Increasing(issued)
    /\ DistinctIds(action_buffer)
    /\ Ids(action_buffer) \subseteq Range(issued)
    /\ resolved \subseteq Range(issued)
    /\ \A id \in Range(issued) : id >= InitCounter /\ id <= action_counter
    /\ ~MidTracked => \A id \in Range(issued) : id < action_counter
    /\ MidTracked => /\ issued[Len(issued)] = action_counter
                     /\ \A i \in 1..(Len(issued) - 1) : issued[i] < action_counter

\* Two ids were created, the first is resolved, the second is pending.
C4_Witness ==
    /\ issued = <<InitCounter, InitCounter + 1>>
    /\ resolved = {InitCounter}
    /\ Ids(action_buffer) = {InitCounter + 1}
    /\ m_pc = "idle" /\ action_counter = InitCounter + 2

\* C5: a non-error reply whose message-id is the id of a pending entry makes
\* handle_obs_message transmit exactly one follow-up, built from that
\* entry's action, and remove that entry, once.
C5_MatchedReplyResolves ==
    w_pc = "done" /\ w_pending =>
        /\ w_action.id = ParseInt(w_payload.mid)
        /\ Len(w_sent) = 1
        /\ w_sent[1].kind = "formatted" /\ w_sent[1].text = w_action.action
        /\ w_removed = <<w_action>>
        /\ w_action \notin Range(action_buffer)

\* The websocket callback handles a non-error payload whose message-id was
\* the id of no entry of the buffer when the handler began.
UnmatchedReply ==
    /\ w_pc # "idle" /\ ~w_payload.error
    /\ w_payload.has_id /\ ~w_pending

\* C6: a non-error reply whose message-id is the id of no pending entry (a
\* stale id, a foreign one) makes handle_obs_message transmit nothing and
\* remove nothing, and no step of it changes the buffer or the counter.
C6_UnmatchedReplyIgnored ==
    /\ [](UnmatchedReply =>
            /\ w_sent = <<>> /\ w_removed = <<>> /\ w_action = NoEntry
            /\ w_pc \in {"scan", "done"}
            /\ w_pc = "done" /\ IsIntString(w_payload.mid) => w_ret = "unmatched")
    /\ [][UnmatchedReply /\ wvars' # wvars =>
             /\ action_buffer' = action_buffer
             /\ action_counter' = action_counter
             /\ wire' = wire]_vars

\* A reply to a request resolved before came in while another entry was
\* pending: the handler went through the buffer and returned.
C6_Witness ==
    /\ w_pc = "done" /\ w_ret = "unmatched" /\ ~w_payload.error
    /\ IsIntString(w_payload.mid) /\ ParseInt(w_payload.mid) \in resolved
    /\ action_buffer # <<>> /\ w_sent = <<>> /\ w_removed = <<>>

\* C7: a reply with an error field makes handle_obs_message return at once:
\* nothing transmitted, nothing removed, whatever its message-id; and an
\* entry leaves the buffer only in the removal step of a handler whose
\* payload has no error field and has that entry's id.
C7_ErrorReplyLeavesEntry ==
    /\ [](w_pc # "idle" /\ w_payload.error =>
            /\ w_pc = "done" /\ w_ret = "error"
            /\ w_sent = <<>> /\ w_removed = <<>>)
    /\ [][\A i \in 1..Len(action_buffer) :
            action_buffer[i] \notin Range(action_buffer') =>
                /\ w_pc = "remove" /\ ~w_payload.error
                /\ w_payload.has_id /\ IsIntString(w_payload.mid)
                /\ ParseInt(w_payload.mid) = action_buffer[i].id]_vars

\* An error reply with the id of a pending entry was handled: the entry is
\* still in the buffer.
C7_Witness ==
    /\ w_pc = "done" /\ w_payload.error /\ w_payload.has_id
    /\ IsIntString(w_payload.mid)
    /\ ParseInt(w_payload.mid) \in Ids(action_buffer)

\* C8: in every state of every interleaving of the two callbacks the buffer
\* holds exactly the entries registered and not resolved, each once and in
\* the order of registration; its length is the number of registrations
\* minus the number of resolutions.
C8_BufferNotCorrupted ==
    /\ Len(action_buffer) = Len(issued) - Cardinality(resolved)
    /\ DistinctIds(action_buffer)
    /\ Ids(action_buffer) = Range(issued) \ resolved
    /\ resolved \subseteq Range(issued)
    /\ \A i, j \in 1..Len(action_buffer) :
          i < j => action_buffer[i].id < action_buffer[j].id

\* The websocket callback is about to remove an entry while the MIDI callback
\* has just appended another one.
C8_Witness ==
    /\ m_pc = "transmit" /\ w_pc = "remove"
    /\ Len(action_buffer) = 2 /\ w_action = action_buffer[1]

\* C9: every request envelope transmitted has the id of an entry that is in
\* the buffer or was resolved, so the entry was registered before the
\* envelope went out; and a reply that found its entry pending is never
\* dropped as unknown.
C9_RegisteredBeforeTransmit ==
    /\ \A e \in wire :
          /\ IsIntString(e.message_id)
          /\ ParseInt(e.message_id) \in Ids(action_buffer) \cup resolved
    /\ w_pc # "idle" /\ w_pending => w_ret # "unmatched"
    /\ w_pc # "idle" /\ ~w_payload.error /\ w_payload.has_id
          /\ IsIntString(w_payload.mid) /\ ParseInt(w_payload.mid) >= InitCounter
          /\ ~w_pending
       => ParseInt(w_payload.mid) \in resolved

\* The reply to an envelope is matched while send_action has not yet counted
\* up after transmitting it.
C9_Witness ==
    /\ m_pc = "increment" /\ w_pc = "followup"
    /\ w_action.id = action_counter /\ w_pending

\* A button row that send_action accepts: an action, and with a request a
\* template and a target.
WellFormedButton(b) ==
    /\ b.input_type = "button"
    /\ b.action \notin {NONE, ""}
    /\ \/ b.request \in {NONE, ""}
       \/ b.request \in TemplateNames /\ b.target \notin {NONE, ""}

\* handle_midi_fader is at, or ended at, a well-formed button row.
AtWellFormedButton ==
    /\ InFader /\ m_idx \in 1..Len(m_results)
    /\ WellFormedButton(m_results[m_idx])

\* C10: on a control_change event, a well-formed row with input_type button
\* fires only at value 127: at any other value the handler ends at that row
\* with nothing transmitted, no call of send_action, and the buffer and the
\* counter as they were; at 127 it ends with exactly one message
\* transmitted, by the send_action call on that row.
C10_FaderThreshold ==
    /\ [](AtWellFormedButton /\ m_pc = "done" =>
            /\ m_raised = NONE
            /\ IF m_value = 127
               THEN /\ Len(m_sent) = 1
                    /\ LastCall.i = m_idx /\ LastCall.ret = "True"
                    /\ LastCall.sent = m_sent
               ELSE m_sent = <<>> /\ m_log = <<>>)
    /\ [][AtWellFormedButton /\ m_pc = "fader_loop" /\ m_value # 127 =>
             /\ m_pc' = "done" /\ m_idx' = m_idx
             /\ m_sent' = m_sent /\ m_log' = m_log
             /\ action_buffer' = action_buffer
             /\ action_counter' = action_counter
             /\ wire' = wire]_vars

\* A control_change with value 127 on a well-formed button row with a
\* request: one envelope went out and the handler ended.
C10_Witness ==
    /\ AtWellFormedButton /\ m_pc = "done" /\ m_value = 127
    /\ m_results[m_idx].request \in TemplateNames
    /\ Len(m_sent) = 1 /\ m_sent[1].kind = "envelope"

\* handle_midi_fader ended at a candidate that is not the last one, without
\* an exception.
FaderStoppedEarly ==
    /\ InFader /\ m_pc = "done" /\ m_raised = NONE
    /\ m_idx \in 1..(Len(m_results) - 1)

\* C11: on a control_change event the loop stops at a row with input_type
\* button only when send_action succeeded on it; at a value other than 127,
\* or after a refusal, the next candidate is tried.
C11_FaderButtonFallsThrough ==
    FaderStoppedEarly /\ m_results[m_idx].input_type = "button" =>
        /\ m_value = 127
        /\ m_log # <<>> /\ LastCall.i = m_idx /\ LastCall.ret = "True"

\* The commands C12 and C19 name.
ValueCommands ==
    {"SetSourcePosition", "SetSourceScale", "SetVolume", "SetSourceRotation",
     "SetTransitionDuration", "SetSyncOffset"}

\* handle_midi_fader runs on candidates whose first is a fader row with one
\* of the value commands.
FirstIsValueFader ==
    /\ InFader /\ m_results # <<>>
    /\ m_results[1].input_type = "fader"
    /\ m_results[1].cmd \in ValueCommands

\* The first candidate also holds the keys the handler reads before it
\* sends: action and the scale range.
FirstIsCompleteFader ==
    /\ FirstIsValueFader
    /\ m_results[1].action # NONE /\ m_results[1].has_scale

\* C12 as stated: with a first candidate of input_type fader and a value
\* command, handle_midi_fader transmits exactly one message, tries no later
\* candidate, and calls no send_action (no entry, counter unchanged).
C12_FaderAlwaysSends ==
    FirstIsValueFader /\ m_pc = "done" =>
        /\ m_raised = NONE
        /\ Len(m_sent) = 1 /\ m_idx = 1 /\ m_log = <<>>

\* C12, amended: the same for a first candidate that also holds an action
\* and a scale range: at every value the handler ends at the first candidate
\* with exactly one message, the action formatted with a number, no call of
\* send_action, and the buffer and the counter as they were.
C12_CompleteFaderAlwaysSends ==
    /\ [](FirstIsCompleteFader /\ m_pc = "done" =>
            /\ m_raised = NONE
            /\ Len(m_sent) = 1 /\ m_idx = 1 /\ m_log = <<>>
            /\ m_sent[1].kind = "formatted_number"
            /\ m_sent[1].text = m_results[1].action)
    /\ [][FirstIsCompleteFader /\ m_pc = "fader_loop" =>
             /\ m_pc' = "done" /\ m_idx' = 1
             /\ Len(m_sent') = 1
             /\ action_buffer' = action_buffer
             /\ action_counter' = action_counter
             /\ wire' = wire]_vars

\* A SetSyncOffset row in front of another candidate, at a value in the
\* middle of the range: one message, and the second candidate not tried.
C12_Witness ==
    /\ FirstIsCompleteFader /\ m_pc = "done"
    /\ m_results[1].cmd = "SetSyncOffset" /\ Len(m_results) = 2
    /\ m_value \notin {0, 127} /\ Len(m_sent) = 1 /\ m_idx = 1

\* C13: a row of a control_change event that lacks its action, or another
\* key the handler reads, is skipped: nothing is transmitted for it, the next
\* candidate is tried or the event is dropped, and no exception leaves
\* handle_midi_fader.
C13_ConfigErrorSkipped ==
    InFader /\ m_pc = "done" =>
        /\ m_raised = NONE
        /\ \A k \in 1..Len(m_results) :
              m_results[k].action = NONE /\ k <= m_idx =>
                  (k < m_idx \/ (k = Len(m_results) /\ m_sent = <<>>))

\* C14: a message without error field that belongs to no pending entry (an
\* unknown message-id, no message-id at all, a message-id that is no integer)
\* leaves handle_obs_message by a plain return, with nothing transmitted and
\* nothing removed.
C14_ForeignMessageSilent ==
    w_pc = "done" /\ ~w_payload.error /\ ~w_pending =>
        /\ w_ret = "unmatched"
        /\ w_sent = <<>> /\ w_removed = <<>>

\* C15: every shutdown path (close(), close(teardown=True) from
\* handle_obs_error, __end__) calls both the close of the MIDI port and the
\* close of the websocket, also when the first of them raises.
C15_BothReleased ==
    c_pc = "done" /\ c_from \in {"close", "handle_obs_error", "__end__"} =>
        {"port", "socket"} \subseteq c_tried

\* The toggle as C16 states it, for every string: without its last character
\* when that is '#', with '#' appended otherwise.
ToggledMarker(url) ==
    IF Len(url) > 0 /\ url[Len(url)] = "#"
    THEN SubSeq(url, 1, Len(url) - 1)
    ELSE Append(url, "#")

\* C16: for a matched ReloadBrowserSource entry and every url of the reply,
\* the empty one included, the follow-up carries the url with its trailing
\* '#' toggled, toggling that again gives the url back, and the entry is
\* removed.
C16_MarkerToggled ==
    /\ w_pc \in {"remove", "done"} /\ w_action.kind = "ReloadBrowserSource"
    /\ w_payload.has_url
    => /\ Len(w_sent) = 1
       /\ w_sent[1].arg = ToggledMarker(w_payload.url)
       /\ ToggledMarker(w_sent[1].arg) = w_payload.url
       /\ w_pc = "done" => w_removed = <<w_action>>

\* C17: for a matched ToggleSourceVisibility entry the follow-up is the
\* entry's action with "false" substituted when the reply's visible is true
\* and "true" substituted when it is false; it is the only message of the
\* handler.
C17_VisibilityInverted ==
    /\ w_pc \in {"remove", "done"} /\ w_action.kind = "ToggleSourceVisibility"
    /\ w_payload.has_visible
    => /\ Len(w_sent) = 1
       /\ w_sent[1].kind = "formatted"
       /\ w_sent[1].text = w_action.action
       /\ w_payload.visible => w_sent[1].arg = <<"false">>
       /\ ~w_payload.visible => w_sent[1].arg = <<"true">>

\* A reply with visible true resolved a ToggleSourceVisibility entry: the
\* follow-up carries "false".
C17_Witness ==
    /\ w_pc = "done" /\ w_action.kind = "ToggleSourceVisibility"
    /\ w_payload.has_visible /\ w_payload.visible
    /\ Len(w_sent) = 1 /\ w_sent[1].arg = <<"false">>
    /\ w_removed = <<w_action>>

\* The websocket callback handles a non-error reply whose id was resolved
\* by an earlier call.
StaleReply ==
    /\ w_pc # "idle" /\ ~w_payload.error /\ w_payload.has_id
    /\ IsIntString(w_payload.mid)
    /\ ParseInt(w_payload.mid) \in resolved /\ w_removed = <<>>

\* C20: no id has two follow-ups: the number of follow-ups transmitted for
\* an id is at most 1, and only registered ids have any; and a reply whose
\* id is resolved already matches no entry, so its handler transmits nothing
\* and removes nothing.
C20_OneFollowUpPerRequest ==
    /\ \A r \in followed : r.n <= 1 /\ r.id \in Range(issued)
    /\ \A r, q \in followed : r.id = q.id => r = q
    /\ resolved \subseteq {r.id : r \in followed}
    /\ StaleReply => w_sent = <<>> /\ w_action = NoEntry /\ w_pc \in {"scan", "done"}

\* The reply to the first request came a second time, after its follow-up,
\* while the MIDI callback was registering the next request: it was dropped.
C20_Witness ==
    /\ StaleReply /\ w_pc = "done" /\ w_ret = "unmatched"
    /\ [id |-> ParseInt(w_payload.mid), n |-> 1] \in followed
    /\ (w_payload.has_visible \/ w_payload.has_url)
    /\ m_pc = "transmit" /\ Len(issued) = 2

\* handle_midi_fader is at, or ended at, a fader row with a scale range.
AtScaledFader ==
    /\ InFader /\ m_idx \in 1..Len(m_results)
    /\ m_results[m_idx].input_type = "fader" /\ m_results[m_idx].has_scale

\* map_scale for the row at hand, as handle_midi_fader calls it.
Scaled(v) ==
    map_scale(v, 0, 127, m_results[m_idx].scale_low, m_results[m_idx].scale_high)

\* The number in the message the handler sent.
SentNumber == Float(m_sent[1].number.m, m_sent[1].number.e)

\* What C18 says of every value but 127: lo at 0, and monotonic in v (stated
\* for v and v + 1).
ScaleStartsAndOrders ==
    LET lo == m_results[m_idx].scale_low
        hi == m_results[m_idx].scale_high
    IN  /\ m_value = 0 => Scaled(0) = lo
        /\ m_value < 127 =>
              /\ Leq(lo, hi) => Leq(Scaled(m_value), Scaled(m_value + 1))
              /\ Leq(hi, lo) => Leq(Scaled(m_value + 1), Scaled(m_value))
        /\ m_pc = "done" /\ m_sent # <<>>
              /\ m_results[m_idx].cmd \in {"SetSourcePosition", "SetSourceScale"}
           => SentNumber = Scaled(m_value)

\* C18 as stated: map_scale(v, 0, 127, lo, hi) is lo at 0, hi at 127, and
\* monotonic in v.
C18_ScaleEndpoints ==
    AtScaledFader =>
        /\ ScaleStartsAndOrders
        /\ m_value = 127 => Scaled(127) = m_results[m_idx].scale_high

\* C18, amended: lo at 0 and monotonic in v; at 127 the result is the float
\* sum lo + (hi - lo), which is hi whenever the float difference hi - lo is
\* exact (as it is for integer bounds).
C18_ScaleEndpointsRounded ==
    AtScaledFader =>
        LET lo == m_results[m_idx].scale_low
            hi == m_results[m_idx].scale_high
        IN  /\ ScaleStartsAndOrders
            /\ m_value = 127 =>
                  /\ Scaled(127) = FAdd(lo, FSub(hi, lo))
                  /\ FSub(hi, lo) = ExactSub(hi, lo) => Scaled(127) = hi

\* Value 127 on a position row with the range -3..1: the message carries 1.
C18_Witness ==
    /\ AtScaledFader /\ m_pc = "done" /\ m_value = 127
    /\ m_results[m_idx].cmd = "SetSourcePosition"
    /\ m_results[m_idx].scale_low = F(-3) /\ m_results[m_idx].scale_high = F(1)
    /\ Len(m_sent) = 1 /\ SentNumber = F(1)

\* x is n with its fraction cut off: n lies between 0 and x, less than 1
\* from x.
TruncatedTowardZero(x, n) ==
    LET ax == Float(Abs(x.m), x.e)
    IN  /\ Leq(F(Abs(n)), ax) /\ ~Leq(F(Abs(n) + 1), ax)
        /\ n # 0 => Sign(n) = Sign(x.m)

\* C19: the number in the message of a fader row is, by command: for
\* SetVolume the scaled value to the third power; for SetSourceRotation,
\* SetTransitionDuration and SetSyncOffset the scaled value truncated toward
\* zero, an integer; for SetSourcePosition and SetSourceScale the scaled value
\* itself.
C19_CommandTransform ==
    AtScaledFader /\ m_pc = "done" /\ m_raised = NONE
        /\ m_results[m_idx].cmd \in ValueCommands
    => LET cmd == m_results[m_idx].cmd
           x == Scaled(m_value)
           n == m_sent[1].number
       IN  /\ Len(m_sent) = 1
           /\ cmd = "SetVolume" =>
                 n.type = "float" /\ SentNumber = Round(ExactMul(x, ExactMul(x, x)))
           /\ cmd \in {"SetSourceRotation", "SetTransitionDuration", "SetSyncOffset"} =>
                 n.type = "int" /\ n.e = 0 /\ TruncatedTowardZero(x, n.m)
           /\ cmd \in {"SetSourcePosition", "SetSourceScale"} =>
                 n.type = "float" /\ SentNumber = x

\* A SetSyncOffset row whose scaled value is negative and no integer: the
\* message carries the integer above it.
C19_Witness ==
    /\ AtScaledFader /\ m_pc = "done" /\ Len(m_sent) = 1
    /\ m_results[m_idx].cmd = "SetSyncOffset"
    /\ Scaled(m_value).m < 0 /\ Scaled(m_value).e < 0
    /\ m_sent[1].number.type = "int"
    /\ Leq(Scaled(m_value), F(m_sent[1].number.m))
====
